---- MODULE Spec2Model ----
(***************************************************************************)
(* A model of three rule modules of the build engine:                      *)
(*   - pants/core/goals/test.py          (the `test` goal, run_tests)      *)
(*   - pants/backend/go/util_rules/sdk.py (GoSdkProcess -> Process)        *)
(*   - pants/backend/awslambda/python/target_types.py (handler inference)  *)
(* An Optional[T] value is modelled as a set with at most one element:     *)
(* None is {} and a present value v is {v}.                                *)
(***************************************************************************)
EXTENDS Integers, Sequences, FiniteSets, TLC

VARIABLES
    pc,               \* position of run_tests: start, results, summary, merge_xml, ...
    debug,            \* test_subsystem.debug
    use_coverage,     \* test_subsystem.use_coverage
    output,           \* test_subsystem.output (ShowOutput)
    targets,          \* the targets the target graph answers with, in order
    results,          \* the tuple the per-target MultiGet resolved to
    sorted_results,   \* sorted(results) as traversed by the summary loop
    console,          \* lines printed with console.print_stderr, in order
    exit_code,        \* the local exit_code, then the value given to Test(...)
    multigets,        \* product types of the MultiGet batches issued, in order
    interactive_runs, \* addresses whose InteractiveProcess was run, in order
    workspace,        \* Optional digest written by workspace.write_digest
    coverage_collections, \* the CoverageDataCollection values built
    debug_requests,   \* the tuple the TestDebugRequest MultiGet resolved to
    rule,             \* the rule body that runs besides the goal, if any
    rpc,              \* its position
    request,          \* its request: a GoSdkProcess (or a lambda field set)
    ambient_env,      \* the environment the engine itself runs in
    pass_through,     \* golang_env_aware.env_vars_to_pass_to_subprocesses
    batch,            \* the sub-requests of the MultiGet the rule waits on
    slots,            \* Optional result of each sub-request, by position
    completed,        \* positions of the sub-requests in completion order
    locals,           \* the names the rule body bound from the batch
    returned,         \* Optional: what the rule returned (a Process, ...)
    gets,             \* the single Get requests the rule body issued, in order
    callers,          \* the rule bodies that ask for a memoized product
    nodes,            \* the computation nodes of the run, in order of creation
    executions        \* the rule bodies run, as (rule, input) in order of start

test_vars == <<pc, debug, use_coverage, output, targets, results, sorted_results,
               console, exit_code, multigets, interactive_runs, workspace,
               coverage_collections, debug_requests>>

rule_vars == <<rule, rpc, request, ambient_env, pass_through, batch, slots,
               completed, locals, returned, gets>>

memo_vars == <<callers, nodes, executions>>

vars == <<test_vars, rule_vars, memo_vars>>

----------------------------------------------------------------------------
(* Bounds of the model *)

MaxTargets == 3

----------------------------------------------------------------------------
(* Optional values *)

None == {}

Some(v) == {v}

Val(o) == CHOOSE v \in o : TRUE

----------------------------------------------------------------------------
(* Address.spec strings are sequences of character codes; Python compares  *)
(* str values lexicographically by code point.                             *)

AddrA == <<65>>

AddrB == <<66>>

AddrC == <<67>>

AddrAB == <<65, 66>>

Addresses == {AddrA, AddrB, AddrC, AddrAB}

RECURSIVE StrLess(_, _)
StrLess(s, t) ==
    IF t = <<>> THEN FALSE
    ELSE IF s = <<>> THEN TRUE
    ELSE IF Head(s) # Head(t) THEN Head(s) < Head(t)
    ELSE StrLess(Tail(s), Tail(t))

----------------------------------------------------------------------------
(* Digests: a file tree is a set of <<path, content>> pairs.               *)

EMPTY_DIGEST == {}

Paths(d) == {f[1] : f \in d}

MergeConflict(ds) ==
    \E d1 \in ds, d2 \in ds : \E f \in d1, g \in d2 : f[1] = g[1] /\ f[2] # g[2]

MergeDigests(ds) == UNION ds

----------------------------------------------------------------------------
(* pants/core/goals/test.py: the result types                              *)

ExitCodes == {0, 1, 5}

DefaultShowOutput == "failed"

ShowOutput == {"all", "failed", "none"}

PyCoverage == "PytestCoverageData"

JvmCoverage == "JvmCoverageData"

CoverageData(type, address) == [type |-> type, of |-> address]

TestResult(ec, out, err, address, cov, xml) ==
    [exit_code |-> ec, stdout |-> out, stderr |-> err, address |-> address,
     coverage_data |-> cov, xml_results |-> xml]

Skip(address) == TestResult(None, "", "", address, None, None)

EnrichedTestResult(ec, out, err, address, setting, cov, xml) ==
    [exit_code |-> ec, stdout |-> out, stderr |-> err, address |-> address,
     output_setting |-> setting, coverage_data |-> cov, xml_results |-> xml]

enrich_test_result(test_result, setting) ==
    EnrichedTestResult(test_result.exit_code, test_result.stdout, test_result.stderr,
                       test_result.address, setting, test_result.coverage_data,
                       test_result.xml_results)

(* skipped with the `not` before self.stdout left out.                      *)
skippedWithOutput(self) ==
    /\ self.exit_code = None
    /\ self.stdout # ""
    /\ self.stderr = ""
    /\ self.coverage_data = None
    /\ self.xml_results = None

skipped(self) ==
    /\ self.exit_code = None
    /\ self.stdout = ""
    /\ self.stderr = ""
    /\ self.coverage_data = None
    /\ self.xml_results = None

(* __lt__ with the last comparison turned around.                          *)
LessThanDescending(self, other) ==
    IF self.exit_code = other.exit_code
    THEN StrLess(self.address, other.address)
    ELSE IF self.exit_code = None THEN TRUE
    ELSE IF other.exit_code = None THEN FALSE
    ELSE Val(self.exit_code) > Val(other.exit_code)

LessThan(self, other) ==
    IF self.exit_code = other.exit_code
    THEN StrLess(self.address, other.address)
    ELSE IF self.exit_code = None THEN TRUE
    ELSE IF other.exit_code = None THEN FALSE
    ELSE Val(self.exit_code) < Val(other.exit_code)

(* sorted(): a stable sort driven by __lt__ alone.  x is placed in front   *)
(* of the first element it is less than, behind everything else.           *)
RECURSIVE InsertSorted(_, _)
InsertSorted(x, s) ==
    IF s = <<>> THEN <<x>>
    ELSE IF LessThan(x, Head(s)) THEN <<x>> \o s
    ELSE <<Head(s)>> \o InsertSorted(x, Tail(s))

RECURSIVE Sorted(_)
Sorted(s) ==
    IF s = <<>> THEN <<>>
    ELSE InsertSorted(s[Len(s)], Sorted(SubSeq(s, 1, Len(s) - 1)))

----------------------------------------------------------------------------
(* run_tests: the summary loop, lines 391-405                              *)

BlankLine == [sigil |-> "", address |-> <<>>, status |-> ""]

SummaryLine(result) ==
    IF result.exit_code = Some(0)
    THEN [sigil |-> "green", address |-> result.address, status |-> "succeeded"]
    ELSE [sigil |-> "red", address |-> result.address, status |-> "failed"]

(* The loop keeping the first exit code other than 0 it meets.             *)
RECURSIVE SummaryExitCodeKeepsFirst(_, _)
SummaryExitCodeKeepsFirst(rs, ec) ==
    IF rs = <<>> THEN ec
    ELSE IF skipped(Head(rs)) \/ Head(rs).exit_code = Some(0) \/ ec # Some(0)
    THEN SummaryExitCodeKeepsFirst(Tail(rs), ec)
    ELSE SummaryExitCodeKeepsFirst(Tail(rs), Head(rs).exit_code)

(* The value of exit_code after the loop has traversed rs, starting at ec. *)
RECURSIVE SummaryExitCode(_, _)
SummaryExitCode(rs, ec) ==
    IF rs = <<>> THEN ec
    ELSE IF skipped(Head(rs)) THEN SummaryExitCode(Tail(rs), ec)
    ELSE IF Head(rs).exit_code = Some(0) THEN SummaryExitCode(Tail(rs), ec)
    ELSE SummaryExitCode(Tail(rs), Head(rs).exit_code)

(* The loop with the print of line 405 inside the else branch.             *)
RECURSIVE SummaryLinesFailedOnly(_)
SummaryLinesFailedOnly(rs) ==
    IF rs = <<>> THEN <<>>
    ELSE IF skipped(Head(rs)) \/ Head(rs).exit_code = Some(0)
    THEN SummaryLinesFailedOnly(Tail(rs))
    ELSE <<SummaryLine(Head(rs))>> \o SummaryLinesFailedOnly(Tail(rs))

(* The lines the loop prints while it traverses rs.                        *)
RECURSIVE SummaryLines(_)
SummaryLines(rs) ==
    IF rs = <<>> THEN <<>>
    ELSE IF skipped(Head(rs)) THEN SummaryLines(Tail(rs))
    ELSE <<SummaryLine(Head(rs))>> \o SummaryLines(Tail(rs))

----------------------------------------------------------------------------
(* Inputs: what the target graph and the test runners answer with.         *)

(* xml_results digests: paths and contents are strings of character codes. *)
(* XmlOwn writes a path of the target's own, XmlShared writes its address  *)
(* into one path shared by all targets.                                    *)
XmlOwn(address) == {<<address, <<120>>>>}

XmlShared(address) == {<<<<106>>, address>>}

(* A target: its address, whether its sources field matches any file, the  *)
(* TestResult its runner computes and the process of its TestDebugRequest. *)
Target(address, sources, test_result, process) ==
    [address |-> address, sources |-> sources, test_result |-> test_result,
     process |-> process]

RunnerResults(a) ==
    { Skip(a),
      TestResult(Some(0), "out", "", a, None, None),
      TestResult(Some(1), "out", "", a, Some(CoverageData(PyCoverage, a)), Some(XmlOwn(a))),
      TestResult(Some(5), "", "err", a, Some(CoverageData(JvmCoverage, a)), Some(XmlShared(a))),
      TestResult(None, "out", "", a, None, None) }

TestTargets ==
    UNION { {Target(a, TRUE, r, None) : r \in RunnerResults(a)}
            \cup {Target(a, FALSE, Skip(a), None)} : a \in Addresses }

DebugTargets ==
    { Target(a, TRUE, Skip(a), p) :
        a \in Addresses, p \in {None} \cup {Some(c) : c \in ExitCodes} }

(* The target graph answers with distinct targets: sequences of at most n  *)
(* elements of S, no two with the same address.                            *)
SeqsUpTo(S, n) ==
    { s \in UNION { [1..k -> S] : k \in 0..n } :
        \A i, j \in 1..Len(s) : s[i].address = s[j].address => i = j }

(* FieldSetsWithSources: the field sets whose sources are not empty.       *)
FieldSetsWithSources(field_sets) == SelectSeq(field_sets, LAMBDA t : t.sources)

(* The tuple the MultiGet of lines 387-389 resolves to: the                *)
(* EnrichedTestResult of each field set, in request order.                 *)
EnrichedResults(field_sets, setting) ==
    [i \in 1..Len(field_sets) |-> enrich_test_result(field_sets[i].test_result, setting)]

(* The tuple the MultiGet of lines 362-365 resolves to: the                *)
(* TestDebugRequest of each field set, in request order.                   *)
TestDebugRequests(field_sets) ==
    [i \in 1..Len(field_sets) |->
        [address |-> field_sets[i].address, process |-> field_sets[i].process]]

Batch(product, requests) == [product |-> product, n |-> Len(requests)]

----------------------------------------------------------------------------
(* run_tests                                                               *)

TestInit ==
    /\ pc = "start"
    /\ output = DefaultShowOutput
    /\ \/ /\ debug = FALSE
          /\ use_coverage \in BOOLEAN
          /\ targets \in SeqsUpTo(TestTargets, MaxTargets)
       \/ /\ debug = TRUE
          /\ use_coverage = FALSE
          /\ targets \in SeqsUpTo(DebugTargets, MaxTargets)
    /\ results = <<>>
    /\ sorted_results = <<>>
    /\ console = <<>>
    /\ exit_code = None
    /\ multigets = <<>>
    /\ interactive_runs = <<>>
    /\ workspace = None
    /\ coverage_collections = <<>>
    /\ debug_requests = <<>>

(* lines 375-389: the valid field sets, those with sources, and the batch  *)
(* of one EnrichedTestResult request per field set.                        *)
AwaitResults ==
    /\ pc = "start"
    /\ ~debug
    /\ LET field_sets_with_sources == FieldSetsWithSources(targets)
       IN /\ results' = EnrichedResults(field_sets_with_sources, output)
          /\ multigets' = Append(multigets,
                                 Batch("EnrichedTestResult", field_sets_with_sources))
    /\ pc' = "summary"
    /\ UNCHANGED <<debug, use_coverage, output, targets, sorted_results, console,
                   exit_code, interactive_runs, workspace, coverage_collections,
                   debug_requests>>
    /\ UNCHANGED <<rule_vars, memo_vars>>

(* lines 391-405 *)
PrintSummary ==
    /\ pc = "summary"
    /\ sorted_results' = Sorted(results)
    /\ console' = (IF results # <<>> THEN <<BlankLine>> ELSE <<>>)
                  \o SummaryLines(sorted_results')
    /\ exit_code' = SummaryExitCode(sorted_results', Some(0))
    /\ pc' = "merge_xml"
    /\ UNCHANGED <<debug, use_coverage, output, targets, results, multigets,
                   interactive_runs, workspace, coverage_collections,
                   debug_requests>>
    /\ UNCHANGED <<rule_vars, memo_vars>>

XmlResults == {Val(results[i].xml_results) :
                  i \in {j \in 1..Len(results) : results[j].xml_results # None}}

(* lines 407-410, and the return of line 445 when coverage is off *)
MergeXmlResults ==
    /\ pc = "merge_xml"
    /\ IF MergeConflict(XmlResults)
       THEN /\ pc' = "error"
            /\ UNCHANGED workspace
       ELSE /\ workspace' = Some(MergeDigests(XmlResults))
            /\ pc' = IF use_coverage THEN "coverage" ELSE "done"
    /\ UNCHANGED <<debug, use_coverage, output, targets, results, sorted_results,
                   console, exit_code, multigets, interactive_runs,
                   coverage_collections, debug_requests>>
    /\ UNCHANGED <<rule_vars, memo_vars>>

(* itertools.groupby(data, type): one group per run of consecutive items   *)
(* of the same type.                                                       *)
RECURSIVE GroupBy(_)
GroupBy(data) ==
    IF data = <<>> THEN <<>>
    ELSE LET rest == GroupBy(Tail(data))
         IN IF rest # <<>> /\ Head(rest).type = Head(data).type
            THEN <<[type |-> Head(data).type, data |-> <<Head(data)>> \o Head(rest).data]>>
                 \o Tail(rest)
            ELSE <<[type |-> Head(data).type, data |-> <<Head(data)>>]>> \o rest

AllCoverageData(rs) ==
    LET with == SelectSeq(rs, LAMBDA r : r.coverage_data # None)
    IN [i \in 1..Len(with) |-> Val(with[i].coverage_data)]

(* lines 412-445: the coverage collections, one CoverageReports request    *)
(* per collection, and the return.  What the reports print or write is     *)
(* decided by the coverage rules of the language backends.                 *)
CollectCoverage ==
    /\ pc = "coverage"
    /\ coverage_collections' = GroupBy(AllCoverageData(results))
    /\ multigets' = Append(multigets, Batch("CoverageReports", coverage_collections'))
    /\ pc' = "done"
    /\ UNCHANGED <<debug, use_coverage, output, targets, results, sorted_results,
                   console, exit_code, interactive_runs, workspace, debug_requests>>
    /\ UNCHANGED <<rule_vars, memo_vars>>

(* lines 355-365: error_if_no_valid_targets=True, then one                 *)
(* TestDebugRequest per valid field set.                                   *)
AwaitDebugRequests ==
    /\ pc = "start"
    /\ debug
    /\ IF targets = <<>>
       THEN /\ pc' = "error"
            /\ UNCHANGED <<debug_requests, multigets>>
       ELSE /\ debug_requests' = TestDebugRequests(targets)
            /\ multigets' = Append(multigets, Batch("TestDebugRequest", targets))
            /\ pc' = "debug_run"
    /\ UNCHANGED <<debug, use_coverage, output, targets, results, sorted_results,
                   console, exit_code, interactive_runs, workspace,
                   coverage_collections>>
    /\ UNCHANGED <<rule_vars, memo_vars>>

(* The value of exit_code after the loop of lines 367-372.                 *)
RECURSIVE DebugExitCode(_, _)
DebugExitCode(reqs, ec) ==
    IF reqs = <<>> THEN ec
    ELSE IF Head(reqs).process = None THEN DebugExitCode(Tail(reqs), ec)
    ELSE IF Head(reqs).process # Some(0) THEN DebugExitCode(Tail(reqs), Head(reqs).process)
    ELSE DebugExitCode(Tail(reqs), ec)

DebugRuns(reqs) ==
    LET ran == SelectSeq(reqs, LAMBDA r : r.process # None)
    IN [i \in 1..Len(ran) |-> ran[i].address]

(* lines 366-373 *)
RunDebugProcesses ==
    /\ pc = "debug_run"
    /\ interactive_runs' = DebugRuns(debug_requests)
    /\ exit_code' = DebugExitCode(debug_requests, Some(0))
    /\ pc' = "done"
    /\ UNCHANGED <<debug, use_coverage, output, targets, results, sorted_results,
                   console, multigets, workspace, coverage_collections,
                   debug_requests>>
    /\ UNCHANGED <<rule_vars, memo_vars>>

----------------------------------------------------------------------------
(* Strings that are taken apart or put together are sequences of pieces;   *)
(* the empty string is the empty sequence.  Mappings (dict, FrozenDict)    *)
(* are functions; {**a, **b} is b @@ a.                                    *)

Str(s) == <<s>>

EmptyStr == <<>>

EmptyMap == <<>>

OrEmptyMap(m) == IF m = None \/ m = Some(EmptyMap) THEN EmptyMap ELSE Val(m)

OrEmptyStr(o) == IF o = None THEN EmptyStr ELSE Val(o)

----------------------------------------------------------------------------
(* pants/backend/go/util_rules/sdk.py                                      *)

CHDIR_ENV == "__PANTS_CHDIR_TO"

SANDBOX_ROOT_ENV == "__PANTS_REPLACE_SANDBOX_ROOT"

CACHE_KEY_ENV == "__PANTS_GO_SDK_CACHE_KEY"

(* GoSdkProcess.__init__ with the default written first, so that the       *)
(* caller's env overrides it.                                              *)
GoSdkProcessCallerWins(command, env, input_digest, working_dir, allow_downloads, replace_sandbox_root_in_args) ==
    [command |-> command,
     env |-> IF allow_downloads
             THEN OrEmptyMap(env)
             ELSE OrEmptyMap(env) @@ ("GOPROXY" :> Str("off")),
     input_digest |-> input_digest,
     working_dir |-> working_dir,
     replace_sandbox_root_in_args |-> replace_sandbox_root_in_args]

(* GoSdkProcess.__init__; command, description and the output fields are   *)
(* copied as given.                                                        *)
GoSdkProcess(command, env, input_digest, working_dir, allow_downloads, replace_sandbox_root_in_args) ==
    [command |-> command,
     env |-> IF allow_downloads
             THEN OrEmptyMap(env)
             ELSE ("GOPROXY" :> Str("off")) @@ OrEmptyMap(env),
     input_digest |-> input_digest,
     working_dir |-> working_dir,
     replace_sandbox_root_in_args |-> replace_sandbox_root_in_args]

GoRoot == [path |-> "/usr/lib/go", version |-> "1.17.1", goos |-> "linux",
           goarch |-> "amd64"]

BashBinary == [path |-> "/bin/bash"]

(* go_sdk_invoke_setup: the script, whose text depends on goroot.path, and *)
(* the digest that holds it.                                               *)
go_sdk_invoke_setup(goroot) ==
    LET go_run_script == [path |-> "__run_go.sh",
                          content |-> <<"export GOROOT=", goroot.path>>]
    IN [digest |-> {<<go_run_script.path, go_run_script.content>>},
        script |-> go_run_script]

(* The two sub-requests of lines 113-119 written in the other order.       *)
GoSdkRequestsSwapped(req, go_sdk_run, names) ==
    << [product |-> "EnvironmentVars", input |-> names],
       [product |-> "Digest", input |-> <<go_sdk_run.digest, req.input_digest>>] >>

(* The two sub-requests of lines 113-119, in the order they are written.   *)
GoSdkRequests(req, go_sdk_run, names) ==
    << [product |-> "Digest", input |-> <<go_sdk_run.digest, req.input_digest>>],
       [product |-> "EnvironmentVars", input |-> names] >>

(* The Process of lines 120-138 with the engine's whole environment        *)
(* passed on instead of the requested variables.                           *)
GoProcessWholeEnvironment(req, go_sdk_run, bash, goroot, input_digest, env_vars) ==
    [argv |-> <<bash.path, go_sdk_run.script.path>> \o req.command,
     env |-> (CACHE_KEY_ENV :> <<goroot.version, "/", goroot.goos, "/", goroot.goarch>>)
             @@ (IF req.replace_sandbox_root_in_args
                 THEN SANDBOX_ROOT_ENV :> Str("1") ELSE EmptyMap)
             @@ (CHDIR_ENV :> OrEmptyStr(req.working_dir))
             @@ req.env
             @@ ambient_env,
     input_digest |-> input_digest]

(* The Process of lines 120-138 with the request's env written last in the *)
(* mapping.                                                                *)
GoProcessRequestEnvLast(req, go_sdk_run, bash, goroot, input_digest, env_vars) ==
    [argv |-> <<bash.path, go_sdk_run.script.path>> \o req.command,
     env |-> req.env
             @@ (CACHE_KEY_ENV :> <<goroot.version, "/", goroot.goos, "/", goroot.goarch>>)
             @@ (IF req.replace_sandbox_root_in_args
                 THEN SANDBOX_ROOT_ENV :> Str("1") ELSE EmptyMap)
             @@ (CHDIR_ENV :> OrEmptyStr(req.working_dir))
             @@ env_vars,
     input_digest |-> input_digest]

(* The Process of lines 120-138 given the request's own digest instead of   *)
(* the merged one.                                                         *)
GoProcessRequestDigest(req, go_sdk_run, bash, goroot, input_digest, env_vars) ==
    [argv |-> <<bash.path, go_sdk_run.script.path>> \o req.command,
     env |-> (CACHE_KEY_ENV :> <<goroot.version, "/", goroot.goos, "/", goroot.goarch>>)
             @@ (IF req.replace_sandbox_root_in_args
                 THEN SANDBOX_ROOT_ENV :> Str("1") ELSE EmptyMap)
             @@ (CHDIR_ENV :> OrEmptyStr(req.working_dir))
             @@ req.env
             @@ env_vars,
     input_digest |-> req.input_digest]

(* lines 120-138 *)
GoProcess(req, go_sdk_run, bash, goroot, input_digest, env_vars) ==
    LET maybe_replace_sandbox_root_env ==
            IF req.replace_sandbox_root_in_args
            THEN SANDBOX_ROOT_ENV :> Str("1")
            ELSE EmptyMap
    IN [argv |-> <<bash.path, go_sdk_run.script.path>> \o req.command,
        env |-> (CACHE_KEY_ENV :> <<goroot.version, "/", goroot.goos, "/", goroot.goarch>>)
                @@ maybe_replace_sandbox_root_env
                @@ (CHDIR_ENV :> OrEmptyStr(req.working_dir))
                @@ req.env
                @@ env_vars,
        input_digest |-> input_digest]

----------------------------------------------------------------------------
(* pants/backend/awslambda/python/target_types.py                          *)
(* Handler values, paths and module names are strings of characters.       *)

FirstIndex(str, c) ==
    IF \E i \in 1..Len(str) : str[i] = c
    THEN CHOOSE i \in 1..Len(str) : str[i] = c /\ \A j \in 1..(i - 1) : str[j] # c
    ELSE 0

LastIndex(str, c) ==
    IF \E i \in 1..Len(str) : str[i] = c
    THEN CHOOSE i \in 1..Len(str) : str[i] = c /\ \A j \in (i + 1)..Len(str) : str[j] # c
    ELSE 0

(* str.partition(c): what is before the first c, c itself, what follows.   *)
Partition(str, c) ==
    LET i == FirstIndex(str, c)
    IN IF i = 0 THEN <<str, <<>>, <<>>>>
       ELSE <<SubSeq(str, 1, i - 1), <<c>>, SubSeq(str, i + 1, Len(str))>>

EndsWith(str, suffix) ==
    /\ Len(suffix) <= Len(str)
    /\ SubSeq(str, Len(str) - Len(suffix) + 1, Len(str)) = suffix

StartsWith(str, prefix) ==
    /\ Len(prefix) <= Len(str)
    /\ SubSeq(str, 1, Len(prefix)) = prefix

DotPy == <<".", "p", "y">>

(* os.path.join(a, b) *)
PathJoin(a, b) ==
    IF StartsWith(b, <<"/">>) THEN b
    ELSE IF a = <<>> \/ EndsWith(a, <<"/">>) THEN a \o b
    ELSE a \o <<"/">> \o b

(* os.path.relpath(path, start) for a start that is "." or one directory.  *)
RelPath(path, start) ==
    IF start = <<".">> THEN path
    ELSE IF StartsWith(path, start \o <<"/">>)
    THEN SubSeq(path, Len(start) + 2, Len(path))
    ELSE <<".", ".", "/">> \o path

(* os.path.splitext(path): split at the last dot of the last component,    *)
(* unless that component starts with it.                                   *)
SplitExt(path) ==
    LET slash == LastIndex(path, "/")
        dot == LastIndex(path, ".")
    IN IF dot > slash + 1
       THEN <<SubSeq(path, 1, dot - 1), SubSeq(path, dot, Len(path))>>
       ELSE <<path, <<>>>>

(* str.replace(os.path.sep, ".") *)
ReplaceSep(str) == [i \in 1..Len(str) |-> IF str[i] = "/" THEN "." ELSE str[i]]

(* Glob matching of one path: * stands for any characters but "/".         *)
RECURSIVE GlobMatch(_, _)
GlobMatch(glob, path) ==
    IF glob = <<>> THEN path = <<>>
    ELSE IF Head(glob) = "*"
    THEN \/ GlobMatch(Tail(glob), path)
         \/ path # <<>> /\ Head(path) # "/" /\ GlobMatch(glob, Tail(path))
    ELSE path # <<>> /\ Head(path) = Head(glob) /\ GlobMatch(Tail(glob), Tail(path))

(* The source tree and its source roots.                                   *)
Files ==
    { <<"s", "/", "a", ".", "p", "y">>,
      <<"s", "/", "b", ".", "p", "y">>,
      <<"s", "/", "d", "/", "a", ".", "p", "y">> }

SourceRoots == { <<".">>, <<"s">> }

(* Paths for a PathGlobs of one glob.                                      *)
PathsFor(glob) == {f \in Files : GlobMatch(glob, f)}

(* SourceRoot for a file or a directory: the longest source root it is in. *)
SourceRootFor(path) ==
    LET within == {r \in SourceRoots : r = <<".">> \/ path = r \/ StartsWith(path, r \o <<"/">>)}
        Depth(r) == IF r = <<".">> THEN 0 ELSE Len(r)
    IN CHOOSE r \in within : \A q \in within : Depth(q) <= Depth(r)

PathGlobs(glob, address) ==
    [product |-> "Paths", input |-> glob, glob_match_error_behavior |-> "error",
     origin |-> address]

SourceRootRequest(path) == [product |-> "SourceRoot", input |-> path]

ResolvedPythonAwsHandler(val, file_name_used, issued) ==
    [product |-> "ResolvedPythonAwsHandler",
     value |-> [val |-> val, file_name_used |-> file_name_used],
     gets |-> issued]

(* resolve_python_aws_handler without the check of lines 123-134: the      *)
(* first of the matched files is taken, however many there are.            *)
resolve_python_aws_handler_first_match(field) ==
    LET parts == Partition(field.value, ":")
        full_glob == PathJoin(field.address.spec_path, parts[1])
        handler_paths == PathsFor(full_glob)
        handler_path == CHOOSE f \in handler_paths : TRUE
        module_base == SplitExt(RelPath(handler_path, SourceRootFor(handler_path)))[1]
    IN IF ~EndsWith(parts[1], DotPy)
       THEN ResolvedPythonAwsHandler(field.value, FALSE, <<>>)
       ELSE IF handler_paths = {}
       THEN [product |-> "Error", value |-> "NoFilesMatched",
             gets |-> <<PathGlobs(full_glob, field.address)>>]
       ELSE ResolvedPythonAwsHandler(ReplaceSep(module_base) \o <<":">> \o parts[3], TRUE,
                <<PathGlobs(full_glob, field.address), SourceRootRequest(handler_path)>>)

(* resolve_python_aws_handler: its result or its error, with the Get       *)
(* requests it issued on the way.                                          *)
resolve_python_aws_handler(field) ==
    LET handler_val == field.value
        address == field.address
        parts == Partition(handler_val, ":")
        path == parts[1]
        func == parts[3]
        full_glob == PathJoin(address.spec_path, path)
        handler_paths == PathsFor(full_glob)
        handler_path == CHOOSE f \in handler_paths : TRUE
        source_root == SourceRootFor(handler_path)
        stripped_source_path == RelPath(handler_path, source_root)
        module_base == SplitExt(stripped_source_path)[1]
        normalized_path == ReplaceSep(module_base)
    IN IF ~EndsWith(path, DotPy)
       THEN ResolvedPythonAwsHandler(handler_val, FALSE, <<>>)
       ELSE IF handler_paths = {}
       THEN [product |-> "Error", value |-> "NoFilesMatched",
             gets |-> <<PathGlobs(full_glob, address)>>]
       ELSE IF Cardinality(handler_paths) # 1
       THEN [product |-> "Error", value |-> "InvalidFieldException",
             gets |-> <<PathGlobs(full_glob, address)>>]
       ELSE ResolvedPythonAwsHandler(normalized_path \o <<":">> \o func, TRUE,
                <<PathGlobs(full_glob, address), SourceRootRequest(handler_path)>>)

(* The two sub-requests of lines 176-182, in the order they are written.   *)
LambdaRequests(field_set) ==
    << [product |-> "ExplicitlyProvidedDependencies", input |-> field_set.dependencies],
       [product |-> "ResolvedPythonAwsHandler", input |-> field_set.handler] >>

(* The PythonModuleOwnersRequest with the directory of the target as its   *)
(* locality, whatever locality was worked out.                             *)
PythonModuleOwnersRequestBySpecPath(module, resolve, locality) ==
    [product |-> "PythonModuleOwners", module |-> module, resolve |-> resolve,
     locality |-> Some(request.field_set.address.spec_path)]

PythonModuleOwnersRequest(module, resolve, locality) ==
    [product |-> "PythonModuleOwners", module |-> module, resolve |-> resolve,
     locality |-> locality]

(* ExplicitlyProvidedDependencies.disambiguated: the one ambiguous owner   *)
(* left when the ignored ones are taken out, if there is exactly one.      *)
Disambiguated(explicitly_provided_deps, ambiguous) ==
    LET left == ambiguous \ explicitly_provided_deps.ignores
    IN IF Cardinality(left) = 1 THEN Some(CHOOSE a \in left : TRUE) ELSE None

(* lines 219-225 *)
InferredDependencies(explicitly_provided_deps, owners) ==
    LET maybe_disambiguated == Disambiguated(explicitly_provided_deps, owners.ambiguous)
    IN IF owners.unambiguous # {} THEN owners.unambiguous
       ELSE IF maybe_disambiguated # None THEN maybe_disambiguated
       ELSE {}

----------------------------------------------------------------------------
(* The engine, as far as a rule body sees it.                              *)

(* EnvironmentVars for an EnvironmentVarsRequest: the requested names that *)
(* are set in the engine's environment, with their values.                 *)
EnvironmentVars(names, env) == [k \in names \cap DOMAIN env |-> env[k]]

Error(type) == [product |-> "Error", value |-> type]

(* What a sub-request resolves to.                                         *)
Resolve(req) ==
    CASE req.product = "Digest" ->
            LET ds == {req.input[i] : i \in 1..Len(req.input)}
            IN IF MergeConflict(ds) THEN Error("DigestMergeConflict")
               ELSE [product |-> "Digest", value |-> MergeDigests(ds)]
      [] req.product = "EnvironmentVars" ->
            [product |-> "EnvironmentVars",
             value |-> EnvironmentVars(req.input, ambient_env)]
      [] req.product = "ExplicitlyProvidedDependencies" ->
            [product |-> "ExplicitlyProvidedDependencies",
             value |-> [ignores |-> req.input.ignores]]
      [] req.product = "ResolvedPythonAwsHandler" ->
            resolve_python_aws_handler(req.input)

Failed(i) == slots[i] # None /\ Val(slots[i]).product = "Error"

Resolved == \A i \in 1..Len(slots) : slots[i] # None /\ ~Failed(i)

(* A sub-request of the batch completes, in any order, and its result is   *)
(* put at the position of its request.                                     *)
CompleteSubRequest(i) ==
    /\ rpc \in {"await", "error"}
    /\ slots[i] = None
    /\ slots' = [slots EXCEPT ![i] = Some(Resolve(batch[i]))]
    /\ completed' = Append(completed, i)
    /\ UNCHANGED <<rule, rpc, request, ambient_env, pass_through, batch, locals,
                   returned, gets>>
    /\ UNCHANGED <<test_vars, memo_vars>>

(* A failed sub-request fails the batch and the rule that waits on it; the *)
(* other sub-requests still run to completion.                             *)
BatchFails ==
    /\ rpc = "await"
    /\ \E i \in 1..Len(slots) : Failed(i)
    /\ rpc' = "error"
    /\ UNCHANGED <<rule, request, ambient_env, pass_through, batch, slots, completed,
                   locals, returned, gets>>
    /\ UNCHANGED <<test_vars, memo_vars>>

----------------------------------------------------------------------------
(* setup_go_sdk_process                                                    *)

(* lines 113-119: the MultiGet is issued *)
GoAwaitBatch ==
    /\ rule = "setup_go_sdk_process"
    /\ rpc = "start"
    /\ batch' = GoSdkRequests(request.value, go_sdk_invoke_setup(GoRoot), pass_through)
    /\ slots' = [i \in 1..Len(batch') |-> None]
    /\ rpc' = "await"
    /\ UNCHANGED <<rule, request, ambient_env, pass_through, completed, locals,
                   returned, gets>>
    /\ UNCHANGED <<test_vars, memo_vars>>

(* lines 113 and 120-138: the tuple is unpacked by position and the        *)
(* Process is built.  `**env_vars` of a value that is no mapping raises.   *)
GoBuildProcess ==
    /\ rule = "setup_go_sdk_process"
    /\ rpc = "await"
    /\ Resolved
    /\ LET input_digest == Val(slots[1])
           env_vars == Val(slots[2])
       IN /\ locals' = [input_digest |-> input_digest, env_vars |-> env_vars]
          /\ IF env_vars.product # "EnvironmentVars"
             THEN /\ rpc' = "error"
                  /\ UNCHANGED returned
             ELSE /\ returned' = Some(GoProcess(request.value, go_sdk_invoke_setup(GoRoot),
                                               BashBinary, GoRoot,
                                               input_digest.value, env_vars.value))
                  /\ rpc' = "done"
    /\ UNCHANGED <<rule, request, ambient_env, pass_through, batch, slots, completed,
                   gets>>
    /\ UNCHANGED <<test_vars, memo_vars>>

----------------------------------------------------------------------------
(* infer_lambda_handler_dependency                                         *)

(* lines 174-182: nothing is inferred when entry_points is off; otherwise  *)
(* the MultiGet is issued.                                                 *)
LambdaAwaitBatch ==
    /\ rule = "infer_lambda_handler_dependency"
    /\ rpc = "start"
    /\ IF ~request.entry_points
       THEN /\ returned' = Some({})
            /\ rpc' = "done"
            /\ UNCHANGED <<batch, slots>>
       ELSE /\ batch' = LambdaRequests(request.field_set)
            /\ slots' = [i \in 1..Len(batch') |-> None]
            /\ rpc' = "await"
            /\ UNCHANGED returned
    /\ UNCHANGED <<rule, request, ambient_env, pass_through, completed, locals, gets>>
    /\ UNCHANGED <<test_vars, memo_vars>>

(* lines 176 and 183-202: the tuple is unpacked by position; the locality  *)
(* needs a SourceRoot only under by_source_root.  `handler.val` of a value *)
(* that has no such attribute raises.                                      *)
LambdaUnpack ==
    /\ rule = "infer_lambda_handler_dependency"
    /\ rpc = "await"
    /\ Resolved
    /\ LET explicitly_provided_deps == Val(slots[1])
           handler == Val(slots[2])
       IN IF handler.product # "ResolvedPythonAwsHandler"
          THEN /\ rpc' = "error"
               /\ locals' = [explicitly_provided_deps |-> explicitly_provided_deps,
                             handler |-> handler, module |-> <<>>, locality |-> None]
               /\ UNCHANGED gets
          ELSE LET module == Partition(handler.value.val, ":")[1]
               IN /\ locals' = [explicitly_provided_deps |-> explicitly_provided_deps,
                                handler |-> handler, module |-> module,
                                locality |-> None]
                  /\ IF request.ambiguity_resolution = "by_source_root"
                     THEN /\ gets' = Append(gets,
                                 SourceRootRequest(request.field_set.address.spec_path))
                          /\ rpc' = "source_root"
                     ELSE /\ gets' = Append(gets,
                                 PythonModuleOwnersRequest(module,
                                     request.field_set.resolve, None))
                          /\ rpc' = "owners"
    /\ UNCHANGED <<rule, request, ambient_env, pass_through, batch, slots, completed,
                   returned>>
    /\ UNCHANGED <<test_vars, memo_vars>>

(* lines 190-202: the source root's path becomes the locality *)
LambdaSourceRoot ==
    /\ rule = "infer_lambda_handler_dependency"
    /\ rpc = "source_root"
    /\ LET source_root == SourceRootFor(request.field_set.address.spec_path)
       IN /\ locals' = [locals EXCEPT !.locality = Some(source_root)]
          /\ gets' = Append(gets,
                 PythonModuleOwnersRequest(locals.module, request.field_set.resolve,
                                           Some(source_root)))
    /\ rpc' = "owners"
    /\ UNCHANGED <<rule, request, ambient_env, pass_through, batch, slots, completed,
                   returned>>
    /\ UNCHANGED <<test_vars, memo_vars>>

(* What the module mapper may answer a PythonModuleOwnersRequest with.     *)
OwnerAddresses == {"s:lib", "s/d:lib"}

ModuleOwners ==
    { [unambiguous |-> u, ambiguous |-> a] :
        u \in {{}, {"s:lib"}}, a \in {{}, OwnerAddresses} }

(* lines 195-225: the owners the module mapper answers with decide what is *)
(* inferred.                                                               *)
LambdaInfer ==
    /\ rule = "infer_lambda_handler_dependency"
    /\ rpc = "owners"
    /\ \E owners \in ModuleOwners :
          returned' = Some(InferredDependencies(locals.explicitly_provided_deps.value,
                                                owners))
    /\ rpc' = "done"
    /\ UNCHANGED <<rule, request, ambient_env, pass_through, batch, slots, completed,
                   locals, gets>>
    /\ UNCHANGED <<test_vars, memo_vars>>

----------------------------------------------------------------------------
(* Inputs of setup_go_sdk_process                                          *)

CallerEnvs ==
    {None, Some(EmptyMap)} \cup
    { Some(m) : m \in UNION { [K -> {Str("caller")}] :
                   K \in (SUBSET {"GOPROXY", "PATH", CHDIR_ENV, SANDBOX_ROOT_ENV,
                                 CACHE_KEY_ENV}) \ {{}} } }

InputDigests ==
    { EMPTY_DIGEST,
      {<<"main.go", <<"package main">>>>},
      {<<"__run_go.sh", <<"something else">>>>},
      {<<"__run_go.sh", <<"export GOROOT=", "/usr/lib/go">>>>, <<"go.mod", <<"module m">>>>} }

AmbientEnv ==
    [k \in {"PATH", "GOPROXY", "HOME", "AWS_SECRET_ACCESS_KEY", CACHE_KEY_ENV}
        |-> Str("ambient")]

PassThroughNames == SUBSET {"PATH", "GOPROXY", "GOPRIVATE", CACHE_KEY_ENV}

RuleIdle ==
    /\ rule = "none"
    /\ rpc = "idle"
    /\ request = None
    /\ ambient_env = EmptyMap
    /\ pass_through = {}
    /\ batch = <<>>
    /\ slots = <<>>
    /\ completed = <<>>
    /\ locals = None
    /\ returned = None
    /\ gets = <<>>

TestIdle ==
    /\ pc = "idle"
    /\ debug = FALSE
    /\ use_coverage = FALSE
    /\ output = DefaultShowOutput
    /\ targets = <<>>
    /\ results = <<>>
    /\ sorted_results = <<>>
    /\ console = <<>>
    /\ exit_code = None
    /\ multigets = <<>>
    /\ interactive_runs = <<>>
    /\ workspace = None
    /\ coverage_collections = <<>>
    /\ debug_requests = <<>>

GoInit ==
    /\ rule = "setup_go_sdk_process"
    /\ rpc = "start"
    /\ \E env \in CallerEnvs, allow_downloads \in BOOLEAN,
          working_dir \in {None, Some(EmptyStr), Some(Str("pkg"))},
          replace \in BOOLEAN, input_digest \in InputDigests :
          request = [args |-> [env |-> env, allow_downloads |-> allow_downloads],
                     value |-> GoSdkProcess(<<"build">>, env, input_digest, working_dir,
                                            allow_downloads, replace)]
    /\ ambient_env = AmbientEnv
    /\ pass_through \in PassThroughNames
    /\ batch = <<>>
    /\ slots = <<>>
    /\ completed = <<>>
    /\ locals = None
    /\ returned = None
    /\ gets = <<>>

----------------------------------------------------------------------------
(* Inputs of infer_lambda_handler_dependency                               *)

HandlerValues ==
    { <<"a", ".", "p", "y", ":", "f">>,
      <<"d", "/", "a", ".", "p", "y", ":", "f">>,
      <<"*", ".", "p", "y", ":", "f">>,
      <<"c", ".", "p", "y", ":", "f">>,
      <<"d", ".", "a", ":", "f">> }

SpecPaths == { <<"s">>, <<"s", "/", "d">>, <<>> }

LambdaFieldSets ==
    { [address |-> [spec_path |-> sp, target_name |-> "lambda"],
       dependencies |-> [ignores |-> ig],
       handler |-> [value |-> h, address |-> [spec_path |-> sp, target_name |-> "lambda"],
                    alias |-> "handler"],
       resolve |-> "python-default"] :
        sp \in SpecPaths, h \in HandlerValues, ig \in {{}, {"s/d:lib"}} }

LambdaInit ==
    /\ rule = "infer_lambda_handler_dependency"
    /\ rpc = "start"
    /\ \E fs \in LambdaFieldSets, entry_points \in BOOLEAN,
          ambiguity_resolution \in {"none", "by_path", "by_source_root"} :
          request = [field_set |-> fs, entry_points |-> entry_points,
                     ambiguity_resolution |-> ambiguity_resolution]
    /\ ambient_env = EmptyMap
    /\ pass_through = {}
    /\ batch = <<>>
    /\ slots = <<>>
    /\ completed = <<>>
    /\ locals = None
    /\ returned = None
    /\ gets = <<>>

----------------------------------------------------------------------------
(* Memoized rules: compute_go_tool_id (sdk.py) and                         *)
(* resolve_python_aws_handler (target_types.py), asked for by several      *)
(* rule bodies of one run at the same time.                                *)

MaxCallers == 3

(* GoSdkToolIDRequest compared by identity instead of by its field: every  *)
(* instance differs from the ones made before it.                          *)
GoSdkToolIDRequestByIdentity(tool_name) == [tool_name |-> tool_name, id |-> Len(nodes)]

(* A frozen dataclass: equal, and of equal hash, when its field is.        *)
GoSdkToolIDRequest(tool_name) == [tool_name |-> tool_name]

GoSdkToolIDResult(tool_name, tool_id) == [tool_name |-> tool_name, tool_id |-> tool_id]

ResolvePythonAwsHandlerRequest(field) == [field |-> field]

Whitespace == {" ", "\n"}

RECURSIVE LStrip(_)
LStrip(str) == IF str # <<>> /\ Head(str) \in Whitespace THEN LStrip(Tail(str)) ELSE str

RECURSIVE RStrip(_)
RStrip(str) ==
    IF str # <<>> /\ str[Len(str)] \in Whitespace
    THEN RStrip(SubSeq(str, 1, Len(str) - 1))
    ELSE str

(* str.strip() *)
Strip(str) == RStrip(LStrip(str))

(* The GoSdkProcess of lines 156-159. *)
ToolIdProcess(req) ==
    GoSdkProcess(<<"tool", req.tool_name, "-V=full">>, None, EMPTY_DIGEST, None,
                 FALSE, FALSE)

(* What running `go tool <name> -V=full` may print: it is the sandbox's    *)
(* to decide, and two runs need not print the same.                        *)
ToolOutputs(process) ==
    { <<process.command[2], " ", "v1", "\n">>, <<" ", process.command[2], " ", "v2">> }

(* compute_go_tool_id, given the ProcessResult its Get resolved to.        *)
compute_go_tool_id(req, result) ==
    GoSdkToolIDResult(req.tool_name, Strip(result.stdout))

ToolNames == {"compile", "asm"}

(* The memoization key of a request: the rule and the value of its input.  *)
Key(rule_name, req) == [rule |-> rule_name, input |-> req]

(* The request a caller makes for what it asks. *)
RequestOf(caller) ==
    CASE caller.rule = "compute_go_tool_id" -> GoSdkToolIDRequest(caller.arg)
      [] caller.rule = "resolve_python_aws_handler" ->
            ResolvePythonAwsHandlerRequest(caller.arg)

NodesFor(key) == {n \in 1..Len(nodes) : nodes[n].key = key}

(* A caller issues its Get.  When no node has the key, a node is made and  *)
(* the rule body is started; otherwise the caller attaches to the node,    *)
(* and has its result at once when it is completed.                        *)
IssueGet(c) ==
    /\ callers[c].state = "ready"
    /\ LET key == Key(callers[c].rule, RequestOf(callers[c]))
           found == NodesFor(key)
           n == CHOOSE m \in found : TRUE
       IN IF found = {}
          THEN /\ nodes' = Append(nodes, [key |-> key, state |-> "running",
                                           result |-> None])
               /\ executions' = Append(executions, [rule |-> callers[c].rule,
                                                    arg |-> callers[c].arg])
               /\ callers' = [callers EXCEPT ![c].state = "waiting",
                                             ![c].node = Len(nodes) + 1,
                                             ![c].how = "created"]
          ELSE /\ UNCHANGED <<nodes, executions>>
               /\ IF nodes[n].state = "completed"
                  THEN callers' = [callers EXCEPT ![c].state = "done",
                                                  ![c].node = n,
                                                  ![c].how = "cached",
                                                  ![c].result = nodes[n].result]
                  ELSE callers' = [callers EXCEPT ![c].state = "waiting",
                                                  ![c].node = n,
                                                  ![c].how = "joined"]
    /\ UNCHANGED <<test_vars, rule_vars>>

(* The body of compute_go_tool_id runs: its process prints something and   *)
(* the result is made of it.                                               *)
ComputeGoToolId(n) ==
    /\ nodes[n].state = "running"
    /\ nodes[n].key.rule = "compute_go_tool_id"
    /\ \E stdout \in ToolOutputs(ToolIdProcess(nodes[n].key.input)) :
          nodes' = [nodes EXCEPT
                      ![n].state = "completed",
                      ![n].result = Some(compute_go_tool_id(nodes[n].key.input,
                                                            [stdout |-> stdout]))]
    /\ UNCHANGED <<callers, executions>>
    /\ UNCHANGED <<test_vars, rule_vars>>

(* The body of resolve_python_aws_handler runs; its error is kept as its   *)
(* result is.                                                              *)
ResolveHandler(n) ==
    /\ nodes[n].state = "running"
    /\ nodes[n].key.rule = "resolve_python_aws_handler"
    /\ nodes' = [nodes EXCEPT
                   ![n].state = "completed",
                   ![n].result = Some(resolve_python_aws_handler(nodes[n].key.input.field))]
    /\ UNCHANGED <<callers, executions>>
    /\ UNCHANGED <<test_vars, rule_vars>>

(* A waiting caller is given the result of the node it is attached to.     *)
Deliver(c) ==
    /\ callers[c].state = "waiting"
    /\ nodes[callers[c].node].state = "completed"
    /\ callers' = [callers EXCEPT ![c].state = "done",
                                  ![c].result = nodes[callers[c].node].result]
    /\ UNCHANGED <<nodes, executions>>
    /\ UNCHANGED <<test_vars, rule_vars>>

MemoIdle ==
    /\ callers = <<>>
    /\ nodes = <<>>
    /\ executions = <<>>

----------------------------------------------------------------------------
(* Specifications                                                          *)

TestNext ==
    \/ AwaitResults
    \/ PrintSummary
    \/ MergeXmlResults
    \/ CollectCoverage
    \/ AwaitDebugRequests
    \/ RunDebugProcesses

Init == TestInit /\ RuleIdle /\ MemoIdle

Next == TestNext

Spec == Init /\ [][Next]_vars

RuleInit == (GoInit \/ LambdaInit) /\ TestIdle /\ MemoIdle

RuleNext ==
    \/ GoAwaitBatch
    \/ \E i \in 1..Len(slots) : CompleteSubRequest(i)
    \/ BatchFails
    \/ GoBuildProcess
    \/ LambdaAwaitBatch
    \/ LambdaUnpack
    \/ LambdaSourceRoot
    \/ LambdaInfer

RuleSpec == RuleInit /\ [][RuleNext]_vars

(* What the callers of a run ask for: a tool id by tool name, or the       *)
(* handler of a handler field.                                             *)
MemoHandlerFields ==
    { fs.handler : fs \in { f \in LambdaFieldSets :
                              f.handler.value = <<"a", ".", "p", "y", ":", "f">>
                              /\ f.address.spec_path # <<>> } }

MemoAsks ==
    { [rule |-> "compute_go_tool_id", arg |-> t] : t \in ToolNames }
    \cup { [rule |-> "resolve_python_aws_handler", arg |-> f] : f \in MemoHandlerFields }

MemoInit ==
    /\ callers \in [1..MaxCallers ->
                      { [rule |-> a.rule, arg |-> a.arg, state |-> "ready", node |-> 0,
                         how |-> "", result |-> None] : a \in MemoAsks }]
    /\ nodes = <<>>
    /\ executions = <<>>
    /\ TestIdle
    /\ RuleIdle

MemoNext ==
    \/ \E c \in DOMAIN callers : IssueGet(c)
    \/ \E n \in 1..Len(nodes) : ComputeGoToolId(n)
    \/ \E n \in 1..Len(nodes) : ResolveHandler(n)
    \/ \E c \in DOMAIN callers : Deliver(c)

MemoSpec == MemoInit /\ [][MemoNext]_vars

----------------------------------------------------------------------------
(* Properties of the test goal                                             *)

Returned == pc = "done"

SummaryPrinted == ~debug /\ pc \in {"merge_xml", "coverage", "done", "error"}

NonSkipped(rs) == {i \in 1..Len(rs) : ~skipped(rs[i])}

Failing(rs) == {i \in NonSkipped(rs) : rs[i].exit_code # Some(0)}

MinOf(S) == CHOOSE x \in S : \A y \in S : x <= y

MaxOf(S) == CHOOSE x \in S : \A y \in S : y <= x

AddressesOf(rs) == [i \in 1..Len(rs) |-> rs[i].address]

(* Every result that is not skipped carries the exit code of a process.    *)
IntegerExitCodes(rs) == \A i \in NonSkipped(rs) : rs[i].exit_code # None

(* C1 as stated: in non-debug mode the goal returns 0 if every non-skipped *)
(* result has exit code 0 and otherwise the FIRST non-zero exit code met   *)
(* when the results are traversed in sorted order (stated here for the     *)
(* runs whose non-skipped results all have integer exit codes).            *)
C1_FirstNonZeroExitCode ==
    (Returned /\ ~debug /\ IntegerExitCodes(results)) =>
        LET rs == Sorted(results)
        IN exit_code = IF Failing(rs) = {} THEN Some(0)
                       ELSE rs[MinOf(Failing(rs))].exit_code

(* C1 amended: in non-debug mode the goal returns 0 if every non-skipped   *)
(* result has exit code 0 and otherwise the exit code of the LAST          *)
(* non-skipped result with an exit code other than 0 in sorted order.      *)
C1_LastNonZeroExitCode ==
    (Returned /\ ~debug) =>
        LET rs == Sorted(results)
        IN exit_code = IF Failing(rs) = {} THEN Some(0)
                       ELSE rs[MaxOf(Failing(rs))].exit_code

C1_Witness ==
    /\ Returned /\ ~debug
    /\ exit_code = Some(5)
    /\ Len(results) = 3
    /\ results[1].exit_code = Some(5)
    /\ results[2].exit_code = Some(1)
    /\ results[3].exit_code = Some(0)

(* The outcome category of a result: 0 skipped, 1 failed, 2 succeeded.     *)
Category(r) == IF skipped(r) THEN 0 ELSE IF r.exit_code = Some(0) THEN 2 ELSE 1

(* C2 as stated: the summary order has the outcome category as primary key *)
(* (skipped, then failed, then succeeded) and the address, lexically, as   *)
(* secondary key; two failed results are ordered by address whatever       *)
(* their exit codes.                                                       *)
C2_CategoryThenAddress ==
    SummaryPrinted =>
        \A i, j \in 1..Len(sorted_results) :
            i < j =>
                /\ Category(sorted_results[i]) <= Category(sorted_results[j])
                /\ Category(sorted_results[i]) = Category(sorted_results[j])
                     => ~StrLess(sorted_results[j].address, sorted_results[i].address)

(* C2, its last clause, which the docstring of __lt__ states too: within   *)
(* one category the results are ordered by address alone, so any two       *)
(* failed results are ordered by address whatever their exit codes (stated *)
(* here for the runs whose non-skipped results all have integer exit       *)
(* codes).                                                                 *)
C2_AddressWithinCategory ==
    (SummaryPrinted /\ IntegerExitCodes(results)) =>
        \A i, j \in 1..Len(sorted_results) :
            (i < j /\ Category(sorted_results[i]) = Category(sorted_results[j]))
                => ~StrLess(sorted_results[j].address, sorted_results[i].address)

C3_Scenario ==
    /\ ~debug
    /\ Len(results) = 3
    /\ \E i, j, k \in 1..3 :
          /\ results[i].address = AddrA /\ results[i].exit_code = Some(0)
          /\ results[j].address = AddrB /\ results[j].exit_code = Some(5)
          /\ results[k].address = AddrC /\ skipped(results[k])

(* C3: over three targets where A exits 0, B exits 5 and C is skipped, in  *)
(* any input order, the sorted order is [C, A, B] and the goal's exit code *)
(* is 5.                                                                   *)
C3_EndToEndScenario ==
    (C3_Scenario /\ SummaryPrinted) =>
        /\ AddressesOf(sorted_results) = <<AddrC, AddrA, AddrB>>
        /\ exit_code = Some(5)
        /\ pc # "error"

C3_Witness ==
    /\ C3_Scenario /\ Returned
    /\ AddressesOf(results) = <<AddrB, AddrA, AddrC>>

(* C4 as stated: every completed invocation, debug or not, yields an       *)
(* integer exit code in Test(exit_code), never None.                       *)
C4_ExitCodeIsInteger ==
    Returned => (exit_code # None /\ \A c \in exit_code : c \in Int)

(* A result that is what TestResult.skip(address) gives, enriched.         *)
IsSkipResult(r) == r = enrich_test_result(Skip(r.address), r.output_setting)

(* C5: when there are no results or every result is a skip, the non-debug  *)
(* goal returns 0 and prints no per-target line.                           *)
C5_NothingToDo ==
    (Returned /\ ~debug /\ \A i \in 1..Len(results) : IsSkipResult(results[i])) =>
        /\ exit_code = Some(0)
        /\ \A n \in 1..Len(console) : console[n] = BlankLine

C5_Witness ==
    /\ Returned /\ ~debug
    /\ Len(results) = 2
    /\ Len(targets) = 3
    /\ \A i \in 1..Len(results) : IsSkipResult(results[i])

Lines(address, status) ==
    {n \in 1..Len(console) : console[n].address = address /\ console[n].status = status}

Reported(r) ==
    [address |-> r.address,
     status |-> IF r.exit_code = Some(0) THEN "succeeded" ELSE "failed"]

(* C6: every non-skipped result is reported exactly once in the summary,   *)
(* as succeeded or failed; the goal aborts only when the xml digests       *)
(* cannot be merged; and the returned exit code is non-zero exactly when   *)
(* some non-skipped result has a non-zero exit code.                       *)
C6_FailuresAreCollected ==
    /\ SummaryPrinted =>
          /\ Cardinality({n \in 1..Len(console) : console[n] # BlankLine})
                = Cardinality(NonSkipped(results))
          /\ \A i \in NonSkipped(results) :
                Cardinality(Lines(results[i].address, Reported(results[i]).status))
                  = Cardinality({j \in NonSkipped(results) :
                                    Reported(results[j]) = Reported(results[i])})
    /\ (~debug /\ pc = "error") => MergeConflict(XmlResults)
    /\ (Returned /\ ~debug) =>
          /\ (exit_code # Some(0)) <=> (Failing(results) # {})
          /\ (exit_code \notin {None, Some(0)})
                <=> (\E i \in NonSkipped(results) : results[i].exit_code \notin {None, Some(0)})

C6_Witness ==
    /\ Returned /\ ~debug
    /\ Len(results) = 3
    /\ \E i \in 1..3 : results[i].exit_code = Some(0)
    /\ \E i \in 1..3 : results[i].exit_code = Some(1)
    /\ \E i \in 1..3 : results[i].exit_code = None /\ ~skipped(results[i])

(* C7 as stated: in debug mode the goal issues no MultiGet batch, runs the *)
(* interactive process of a single target only and returns exactly that    *)
(* process's exit code.                                                    *)
C7_DebugRunsSingleTarget ==
    (Returned /\ debug) =>
        /\ multigets = <<>>
        /\ Len(interactive_runs) = 1
        /\ \E i \in 1..Len(debug_requests) :
              /\ debug_requests[i].address = interactive_runs[1]
              /\ debug_requests[i].process = exit_code

(* C7, its second and third parts, which the help of --debug states too:   *)
(* at most one target's interactive process is run, and when one is run    *)
(* its exit code is the goal's.                                            *)
C7_DebugSingleProcess ==
    (Returned /\ debug) =>
        /\ Len(interactive_runs) <= 1
        /\ Len(interactive_runs) = 1 =>
              \E i \in 1..Len(debug_requests) :
                  /\ debug_requests[i].address = interactive_runs[1]
                  /\ debug_requests[i].process = exit_code

----------------------------------------------------------------------------
(* Properties of setup_go_sdk_process                                      *)

GoDone == rule = "setup_go_sdk_process" /\ rpc = "done"

(* C8: unless the GoSdkProcess was constructed with allow_downloads=True,  *)
(* the env of the Process maps GOPROXY to "off", whatever env the caller   *)
(* gave and whatever variables are passed through; with                    *)
(* allow_downloads=True the constructor adds no GOPROXY entry.             *)
C8_DownloadsDeniedByDefault ==
    rule = "setup_go_sdk_process" =>
        /\ (GoDone /\ ~request.args.allow_downloads) =>
              /\ "GOPROXY" \in DOMAIN Val(returned).env
              /\ Val(returned).env["GOPROXY"] = Str("off")
        /\ request.args.allow_downloads =>
              request.value.env = OrEmptyMap(request.args.env)

C8_Witness ==
    /\ GoDone
    /\ ~request.args.allow_downloads
    /\ request.args.env # None
    /\ "GOPROXY" \in DOMAIN Val(request.args.env)
    /\ "GOPROXY" \in pass_through

EngineKeys == {CHDIR_ENV, SANDBOX_ROOT_ENV, CACHE_KEY_ENV}

(* C9: the keys of the env of every Process built are among the names to   *)
(* pass through, the keys of the request's env and the three keys the rule *)
(* sets itself; no other variable of the engine's environment appears.     *)
C9_EnvIsAllowList ==
    GoDone =>
        DOMAIN Val(returned).env
            \subseteq (pass_through \cup DOMAIN request.value.env \cup EngineKeys)

C9_Witness ==
    /\ GoDone
    /\ "PATH" \in pass_through
    /\ "PATH" \in DOMAIN Val(returned).env
    /\ "HOME" \in DOMAIN ambient_env
    /\ "HOME" \notin DOMAIN Val(returned).env

----------------------------------------------------------------------------
(* Properties of the MultiGet batches                                      *)

Unpacked == Resolved /\ batch # <<>> /\ rpc # "await"

(* C10: the results of a MultiGet batch are delivered in request order     *)
(* whatever order the sub-requests complete in: setup_go_sdk_process binds *)
(* the merged Digest first and the EnvironmentVars second,                 *)
(* infer_lambda_handler_dependency the ExplicitlyProvidedDependencies      *)
(* first and the ResolvedPythonAwsHandler second.                          *)
C10_BatchKeepsRequestOrder ==
    /\ \A i \in 1..Len(slots) :
          slots[i] # None => Val(slots[i]).product \in {batch[i].product, "Error"}
    /\ (rule = "setup_go_sdk_process" /\ Unpacked) =>
          /\ rpc = "done"
          /\ locals.input_digest.product = "Digest"
          /\ locals.input_digest.value
               = go_sdk_invoke_setup(GoRoot).digest \cup request.value.input_digest
          /\ locals.env_vars.product = "EnvironmentVars"
          /\ DOMAIN locals.env_vars.value \subseteq pass_through
    /\ (rule = "infer_lambda_handler_dependency" /\ Unpacked) =>
          /\ rpc # "error"
          /\ locals.explicitly_provided_deps.product = "ExplicitlyProvidedDependencies"
          /\ locals.explicitly_provided_deps.value.ignores
               = request.field_set.dependencies.ignores
          /\ locals.handler.product = "ResolvedPythonAwsHandler"
          /\ locals.handler.value
               = resolve_python_aws_handler(request.field_set.handler).value

C10_Witness ==
    /\ GoDone
    /\ completed = <<2, 1>>
    /\ request.value.input_digest # EMPTY_DIGEST
    /\ "PATH" \in DOMAIN locals.env_vars.value

----------------------------------------------------------------------------
(* Properties of the digest merge of setup_go_sdk_process                  *)

RunScriptDigest == go_sdk_invoke_setup(GoRoot).digest

(* The request's digest has the path of the run script with other content. *)
ScriptConflict(d) ==
    \E f \in d, g \in RunScriptDigest : f[1] = g[1] /\ f[2] # g[2]

(* The Digest sub-request of the batch with its two arguments exchanged.   *)
MergeArgumentsExchanged(req) == [req EXCEPT !.input = <<req.input[2], req.input[1]>>]

(* C11: where setup_go_sdk_process merges digests, (identity) with the     *)
(* default input_digest EMPTY_DIGEST the Process's input digest is the     *)
(* run-script digest; (commutativity) for a request digest whose paths are *)
(* disjoint from the script's the merge gives the same result with the     *)
(* arguments in the other order, and the Process carries that result;      *)
(* (conflict) a request digest with the path __run_go.sh and different     *)
(* content makes the merge fail with DigestMergeConflict and no Process is *)
(* produced.                                                               *)
C11_DigestMergeLaws ==
    rule = "setup_go_sdk_process" =>
        /\ (GoDone /\ request.value.input_digest = EMPTY_DIGEST) =>
              Val(returned).input_digest = RunScriptDigest
        /\ (batch # <<>> /\ Paths(request.value.input_digest) \cap Paths(RunScriptDigest) = {}) =>
              /\ Resolve(MergeArgumentsExchanged(batch[1])) = Resolve(batch[1])
              /\ Resolve(batch[1]).product = "Digest"
              /\ GoDone => Val(returned).input_digest = Resolve(batch[1]).value
              /\ GoDone => Val(returned).input_digest
                              = Resolve(MergeArgumentsExchanged(batch[1])).value
        /\ ScriptConflict(request.value.input_digest) =>
              /\ returned = None
              /\ rpc # "done"
              /\ (batch # <<>> /\ slots[1] # None) =>
                    Val(slots[1]) = Error("DigestMergeConflict")
              /\ (batch # <<>> /\ slots[1] # None /\ slots[2] # None) =>
                    ENABLED BatchFails \/ rpc = "error"

C11_Witness ==
    /\ rule = "setup_go_sdk_process"
    /\ rpc = "error"
    /\ ScriptConflict(request.value.input_digest)
    /\ Val(slots[1]) = Error("DigestMergeConflict")
    /\ slots[2] # None
    /\ returned = None

----------------------------------------------------------------------------
(* Properties of the memoized rules                                        *)

Asked(c) == [rule |-> callers[c].rule, arg |-> callers[c].arg]

ExecutionsOf(ask) == {i \in 1..Len(executions) : executions[i] = ask}

(* C12: every (rule, input) pair has at most one node; when several        *)
(* callers ask for the same product of the same input, in any              *)
(* interleaving, the rule body is run exactly once for all that have       *)
(* asked, and all that have their result have the same one.                *)
C12_OneComputationPerRequest ==
    /\ \A m, n \in 1..Len(nodes) : nodes[m].key = nodes[n].key => m = n
    /\ Len(executions) = Len(nodes)
    /\ \A c \in DOMAIN callers :
          callers[c].state # "ready" => Cardinality(ExecutionsOf(Asked(c))) = 1
    /\ \A c \in DOMAIN callers :
          callers[c].state = "done" =>
              /\ callers[c].result # None
              /\ callers[c].result = nodes[callers[c].node].result
    /\ \A c1, c2 \in DOMAIN callers :
          (Asked(c1) = Asked(c2) /\ callers[c1].state = "done" /\ callers[c2].state = "done")
              => callers[c1].result = callers[c2].result

C12_Witness ==
    /\ Len(callers) >= 3
    /\ \A c \in 1..3 : Asked(c) = [rule |-> "compute_go_tool_id", arg |-> "compile"]
    /\ \A c \in 1..3 : callers[c].state = "done"
    /\ callers[1].how = "joined"
    /\ callers[2].how = "created"
    /\ callers[3].how = "cached"
    /\ Cardinality(ExecutionsOf(Asked(1))) = 1
    /\ Val(callers[1].result).tool_id = <<"compile", " ", "v2">>

----------------------------------------------------------------------------
(* Properties of resolve_python_aws_handler                                *)

(* The handler field of the request and what its sub-request resolved to.  *)
HandlerResolved ==
    /\ rule = "infer_lambda_handler_dependency"
    /\ batch # <<>>
    /\ slots[2] # None

(* The dotted module path, relative to its source root, of each file of    *)
(* the source tree.                                                        *)
DottedModule(file) ==
    CASE file = <<"s", "/", "a", ".", "p", "y">> -> <<"a">>
      [] file = <<"s", "/", "b", ".", "p", "y">> -> <<"b">>
      [] file = <<"s", "/", "d", "/", "a", ".", "p", "y">> -> <<"d", ".", "a">>

(* The files a handler field's path names through the glob of its target's *)
(* directory.                                                              *)
HandlerFiles(field) ==
    { f \in Files :
        GlobMatch(PathJoin(field.address.spec_path, Partition(field.value, ":")[1]), f) }

----------------------------------------------------------------------------
(* Properties of infer_lambda_handler_dependency                           *)

BySourceRoot == request.ambiguity_resolution = "by_source_root"

(* The rule has issued its PythonModuleOwnersRequest.                      *)
OwnersRequested ==
    /\ rule = "infer_lambda_handler_dependency"
    /\ rpc \in {"owners", "done"}
    /\ gets # <<>>

(* C14: unless ambiguity_resolution is by_source_root the rule issues no   *)
(* SourceRoot sub-request and its PythonModuleOwnersRequest is made of the *)
(* handler's module, the resolve and locality=None alone, so that targets  *)
(* with the same module and resolve issue equal requests whatever their    *)
(* addresses; under by_source_root the locality is the path of the source  *)
(* root of the target's directory, which is not the directory itself       *)
(* unless the directory is a source root.                                  *)
C14_LocalityOnlyIfNeeded ==
    rule = "infer_lambda_handler_dependency" =>
        /\ ~BySourceRoot =>
              /\ \A i \in 1..Len(gets) : gets[i].product # "SourceRoot"
              /\ rpc # "source_root"
              /\ OwnersRequested =>
                    /\ Len(gets) = 1
                    /\ gets[1] = [product |-> "PythonModuleOwners",
                                  module |-> Partition(Val(slots[2]).value.val, ":")[1],
                                  resolve |-> request.field_set.resolve,
                                  locality |-> None]
        /\ (BySourceRoot /\ OwnersRequested) =>
              /\ Len(gets) = 2
              /\ gets[1] = [product |-> "SourceRoot",
                            input |-> request.field_set.address.spec_path]
              /\ gets[2] = [product |-> "PythonModuleOwners",
                            module |-> Partition(Val(slots[2]).value.val, ":")[1],
                            resolve |-> request.field_set.resolve,
                            locality |-> Some(SourceRootFor(request.field_set.address.spec_path))]
              /\ Val(gets[2].locality) \in SourceRoots
              /\ request.field_set.address.spec_path \notin SourceRoots
                    => gets[2].locality # Some(request.field_set.address.spec_path)

C14_Witness ==
    /\ OwnersRequested
    /\ BySourceRoot
    /\ rpc = "done"
    /\ request.field_set.address.spec_path = <<"s", "/", "d">>
    /\ gets[2].locality = Some(<<"s">>)
    /\ gets[2].module = <<"d", ".", "a">>

----------------------------------------------------------------------------
(* Properties of the coverage collections of run_tests                     *)

CoverageTypes(data) == {data[i].type : i \in 1..Len(data)}

DataOfType(data, type) == SelectSeq(data, LAMBDA d : d.type = type)

(* C15 as stated: with coverage enabled the goal builds exactly one        *)
(* CoverageDataCollection, and issues exactly one CoverageReports          *)
(* sub-request, per distinct coverage-data type among the results, holding *)
(* all coverage data of that type, in whatever order the results come.     *)
C15_OneCollectionPerType ==
    (Returned /\ ~debug /\ use_coverage) =>
        LET data == AllCoverageData(results)
        IN /\ Len(coverage_collections) = Cardinality(CoverageTypes(data))
           /\ \A t \in CoverageTypes(data) :
                 \E i \in 1..Len(coverage_collections) :
                    /\ coverage_collections[i].type = t
                    /\ coverage_collections[i].data = DataOfType(data, t)
           /\ multigets[Len(multigets)]
                = [product |-> "CoverageReports", n |-> Cardinality(CoverageTypes(data))]

----------------------------------------------------------------------------
(* Properties of skip results                                              *)

NotSkipResults(rs) == SelectSeq(rs, LAMBDA r : ~IsSkipResult(r))

(* C16 as stated: for every address and output setting the enriched        *)
(* TestResult.skip(address) has skipped true; in the summary it sorts      *)
(* before every non-skipped result, is not printed and does not change the *)
(* exit code; and enrich_test_result copies exit_code, stdout, stderr,     *)
(* address, coverage_data and xml_results unchanged for every input.       *)
C16_SkipStaysSkip ==
    /\ \A a \in Addresses, o \in ShowOutput : skipped(enrich_test_result(Skip(a), o))
    /\ \A t \in TestTargets, o \in ShowOutput :
          LET enriched == enrich_test_result(t.test_result, o)
          IN /\ enriched.output_setting = o
             /\ [f \in DOMAIN t.test_result |-> enriched[f]] = t.test_result
    /\ SummaryPrinted =>
          /\ \A i, j \in 1..Len(sorted_results) :
                (IsSkipResult(sorted_results[i]) /\ ~skipped(sorted_results[j])) => i < j
          /\ \A i \in 1..Len(results) :
                IsSkipResult(results[i]) =>
                    \A n \in 1..Len(console) : console[n].address # results[i].address
          /\ exit_code = SummaryExitCode(Sorted(NotSkipResults(results)), Some(0))

----------------------------------------------------------------------------
(* Properties of the env of the Process of setup_go_sdk_process            *)

(* C17: in the env of the Process a key of the request's env has the       *)
(* request's value whatever the pass-through variables hold, unless it is  *)
(* one of the keys the rule sets; a pass-through variable that nothing     *)
(* overrides keeps its value; __PANTS_GO_SDK_CACHE_KEY is always           *)
(* "<goroot.version>/<goroot.goos>/<goroot.goarch>", __PANTS_CHDIR_TO is   *)
(* always the request's working_dir, or "" when that is None, and          *)
(* __PANTS_REPLACE_SANDBOX_ROOT is "1" whenever                            *)
(* replace_sandbox_root_in_args is true, whatever env the caller gave.     *)
C17_EnvPrecedence ==
    GoDone =>
        LET env == Val(returned).env
            req == request.value
        IN /\ env[CACHE_KEY_ENV] = <<"1.17.1", "/", "linux", "/", "amd64">>
           /\ env[CHDIR_ENV] = (IF req.working_dir = None THEN <<>> ELSE Val(req.working_dir))
           /\ req.replace_sandbox_root_in_args => env[SANDBOX_ROOT_ENV] = <<"1">>
           /\ \A k \in DOMAIN req.env :
                 (k \notin {CACHE_KEY_ENV, CHDIR_ENV}
                  /\ ~(k = SANDBOX_ROOT_ENV /\ req.replace_sandbox_root_in_args))
                    => env[k] = req.env[k]
           /\ \A k \in (pass_through \cap DOMAIN ambient_env) :
                 (k \notin DOMAIN req.env /\ k \notin EngineKeys) => env[k] = ambient_env[k]
           /\ \A k \in DOMAIN env :
                 k \in DOMAIN req.env \/ k \in pass_through \/ k \in EngineKeys

C17_Witness ==
    /\ GoDone
    /\ request.value.replace_sandbox_root_in_args
    /\ request.value.working_dir = Some(Str("pkg"))
    /\ {"PATH", CHDIR_ENV, SANDBOX_ROOT_ENV, CACHE_KEY_ENV} \subseteq DOMAIN request.value.env
    /\ {"PATH", CACHE_KEY_ENV} \subseteq pass_through
    /\ Val(returned).env["PATH"] = Str("caller")
    /\ Val(returned).env[CHDIR_ENV] = Str("pkg")

====
